---- MODULE Spec2Model ----
(***************************************************************************)
(* A model of pathfinder/gl/src/debug.rs: the debug overlay (DebugUI), its *)
(* bitmap-font text layout, its rectangle batching and its two rolling     *)
(* windows of timing samples (SampleBuffer).                               *)
(*                                                                         *)
(* Representation.                                                         *)
(*   Duration          [secs, nanos]                                       *)
(*   Option<T>         <<>> (None) or <<v>> (Some(v))                      *)
(*   f64               an exact fraction [num, den] in lowest terms.  The  *)
(*                     durations drawn are whole milliseconds, so every    *)
(*                     term and every partial sum of mean_ms is an integer *)
(*                     below 2^53 and exact in f64; the one rounding step  *)
(*                     is the final division, which IEEE 754 rounds        *)
(*                     correctly, so the f64 is the nearest double to the  *)
(*                     fraction kept here.                                 *)
(*   char, &str        a one-character string, a sequence of them          *)
(*   Point2DI32        [x, y];  RectI32  [origin, size]                    *)
(*   HashMap<char, DebugCharacter>   a function from characters to         *)
(*                     [x, y, width, height, origin_x, origin_y, advance]  *)
(*   the GL device     gl_calls, the draw calls the most recent operation  *)
(*                     issued, each with the buffer contents it drew       *)
(***************************************************************************)
EXTENDS Integers, Sequences, FiniteSets, TLC

VARIABLES
    framebuffer_size,   \* DebugUI.framebuffer_size : Size2D<u32>
    font,               \* DebugUI.font.characters
    cpu_samples,        \* DebugUI.cpu_samples.samples : VecDeque<Duration>
    gpu_samples,        \* DebugUI.gpu_samples.samples
    solid_index_buffer, \* contents of DebugUI.solid_vertex_array.index_buffer
    gl_calls,           \* draw calls issued by the most recent operation
    call,               \* the most recent operation, its arguments and result
    frame,              \* << >>, or what draw() issued first since the state last
                        \* changed and how many draws followed that change (1, 2 = more)
    pushed_cpu,         \* history: every tile_time given to add_sample
    pushed_gpu,         \* history: every Some(rendering_time) given to add_sample
    window_size,        \* history: the size last given to new / set_framebuffer_size
    loaded_font,        \* history: the font DebugFont::load returned
    input               \* SpecDraw: the arguments the host passes to a primitive

vars == <<framebuffer_size, font, cpu_samples, gpu_samples, solid_index_buffer,
          gl_calls, call, frame,
          pushed_cpu, pushed_gpu, window_size, loaded_font, input>>

----------------------------------------------------------------------------
(* Program constants.                                                      *)

SAMPLE_BUFFER_SIZE == 60

PADDING == 12

LINE_HEIGHT == 42

FONT_ASCENT == 28

PERF_WINDOW_WIDTH == 300

PERF_WINDOW_HEIGHT == LINE_HEIGHT * 2 + PADDING + 2

QUAD_INDICES == <<0, 1, 3, 1, 2, 3>>

TEXT_COLOR == [r |-> 255, g |-> 255, b |-> 255, a |-> 255]

INVERTED_TEXT_COLOR == [r |-> 0, g |-> 0, b |-> 0, a |-> 255]

WINDOW_COLOR == [r |-> 30, g |-> 30, b |-> 30, a |-> 255 - 30]

----------------------------------------------------------------------------
(* Bounds of the model.                                                    *)

\* add_sample calls in a run of SpecSamples (past SAMPLE_BUFFER_SIZE, so
\* that both buffers evict).
MaxCalls == 65

\* The first MaxFree add_sample calls of SpecSamples take any input; the
\* later ones follow the fixed cycle FillerCpu / FillerGpu.
MaxFree == 1

\* add_sample calls in a run of Spec.
MaxFrames == 2

\* Longest string given to draw_text / measure_text.
MaxLen == 3

----------------------------------------------------------------------------
(* Integer conversions.                                                    *)

\* `x as i16` of an i32: keeps the low 16 bits, two's complement.
AsI16(x) == ((x + 32768) % 65536) - 32768

\* `x as u16` of an i32: keeps the low 16 bits.
AsU16(x) == x % 65536

\* `x as i32` of a u32: values from 2^31 up become x - 2^32.
AsI32(x) == IF x <= 2147483647 THEN x ELSE ((x - 2147483647) - 2147483647) - 2

Min(a, b) == IF a <= b THEN a ELSE b

----------------------------------------------------------------------------
(* f64 values as exact fractions.                                          *)

RECURSIVE GCD(_, _)
GCD(a, b) == IF b = 0 THEN a ELSE GCD(b, a % b)

Ratio(n, d) == LET g == GCD(n, d) IN [num |-> n \div g, den |-> d \div g]

FAdd(a, b) == Ratio(a.num * b.den + b.num * a.den, a.den * b.den)

FDiv(a, n) == Ratio(a.num, a.den * n)

----------------------------------------------------------------------------
(* SampleBuffer.                                                           *)

\* SampleBuffer::new: an empty deque.
SampleBufferNew == <<>>

RECURSIVE PopFrontWhileOver(_)
PopFrontWhileOver(samples) ==
    IF Len(samples) > SAMPLE_BUFFER_SIZE
    THEN PopFrontWhileOver(Tail(samples))
    ELSE samples

\* A push that evicts the newest sample instead of the oldest.
PushPopBack(samples, time) ==
    IF Len(samples) + 1 > SAMPLE_BUFFER_SIZE
    THEN SubSeq(Append(samples, time), 1, SAMPLE_BUFFER_SIZE)
    ELSE Append(samples, time)

\* SampleBuffer::push: push_back, then pop_front while over capacity.
Push(samples, time) == PopFrontWhileOver(Append(samples, time))

\* One term of the loop of mean_ms:
\* time.as_secs() as f64 * 1000.0 + time.subsec_nanos() as f64 / 1000000.0
DurationMs(time) == FAdd(Ratio(time.secs * 1000, 1), Ratio(time.nanos, 1000000))

\* The loop of mean_ms: ms starts at 0.0 and takes the term of each sample
\* from lo to hi.  The loop adds them front to back; every term and partial
\* sum being exact, how the additions are grouped does not change the
\* sum, and the two halves of the range are added up separately.
RECURSIVE SumMs(_, _, _)
SumMs(samples, lo, hi) ==
    IF lo > hi THEN Ratio(0, 1)
    ELSE IF lo = hi THEN DurationMs(samples[lo])
    ELSE LET mid == (lo + hi) \div 2
         IN FAdd(SumMs(samples, lo, mid), SumMs(samples, mid + 1, hi))

\* A mean that divides by the capacity instead of the length.
MeanOverCapacity(samples) ==
    IF samples = <<>> THEN Ratio(0, 1)
    ELSE FDiv(SumMs(samples, 1, Len(samples)), SAMPLE_BUFFER_SIZE)

\* SampleBuffer::mean_ms.
mean_ms(samples) ==
    IF samples = <<>> THEN Ratio(0, 1)
    ELSE FDiv(SumMs(samples, 1, Len(samples)), Len(samples))

----------------------------------------------------------------------------
(* Point2DI32 and RectI32 (pathfinder_geometry).                           *)

Point(x, y) == [x |-> x, y |-> y]

\* RectI32::new(origin, size)
RectNew(origin, size) == [origin |-> origin, size |-> size]

RectOrigin(rect) == rect.origin

RectUpperRight(rect) == Point(rect.origin.x + rect.size.x, rect.origin.y)

RectLowerRight(rect) == Point(rect.origin.x + rect.size.x, rect.origin.y + rect.size.y)

RectLowerLeft(rect) == Point(rect.origin.x, rect.origin.y + rect.size.y)

RectMinX(rect) == rect.origin.x

RectMinY(rect) == rect.origin.y

----------------------------------------------------------------------------
(* Vertices.                                                               *)

\* DebugSolidVertex::new
DebugSolidVertex(position) ==
    [position_x |-> AsI16(position.x), position_y |-> AsI16(position.y)]

\* DebugTextureVertex::new
DebugTextureVertex(position, tex_coord) ==
    [position_x  |-> AsI16(position.x),  position_y  |-> AsI16(position.y),
     tex_coord_x |-> AsU16(tex_coord.x), tex_coord_y |-> AsU16(tex_coord.y)]

----------------------------------------------------------------------------
(* Rectangles.                                                             *)

\* DebugUI::draw_rect: upload the four corners, then one draw call.  The
\* filled variant is glDrawElements(TRIANGLES, 6, ..) through the index
\* buffer of the solid vertex array, which DebugUI::new uploaded; the
\* outline is glDrawArrays(LINE_LOOP, 0, 4).
draw_rect(rect, color, filled) ==
    << [program     |-> "debug_solid",
        vertex_data |-> << DebugSolidVertex(RectOrigin(rect)),
                           DebugSolidVertex(RectUpperRight(rect)),
                           DebugSolidVertex(RectLowerRight(rect)),
                           DebugSolidVertex(RectLowerLeft(rect)) >>,
        index_data  |-> IF filled THEN solid_index_buffer ELSE << >>,
        framebuffer_size_uniform |-> framebuffer_size,
        color       |-> color,
        mode        |-> IF filled THEN "TRIANGLES" ELSE "LINE_LOOP",
        indexed     |-> filled,
        count       |-> IF filled THEN 6 ELSE 4] >>

\* DebugUI::draw_solid_rect
draw_solid_rect(rect, color) == draw_rect(rect, color, TRUE)

\* An outline that asks draw_rect for the filled variant.
draw_rect_outline_filled(rect, color) == draw_rect(rect, color, TRUE)

\* DebugUI::draw_rect_outline
draw_rect_outline(rect, color) == draw_rect(rect, color, FALSE)

----------------------------------------------------------------------------
(* Text.                                                                   *)

\* A lookup that substitutes '?' for every character.
ResolveAlways(characters, character) == "?"

\* if !self.font.characters.contains_key(&character) { character = '?'; }
Resolve(characters, character) ==
    IF character \notin DOMAIN characters THEN "?" ELSE character

\* The six indices of a quad, unshifted.
QuadIndicesUnshifted(first_vertex_index) == QUAD_INDICES

\* QUAD_INDICES.iter().map(|&i| i + first_vertex_index as u32)
QuadIndicesFrom(first_vertex_index) ==
    [i \in 1..Len(QUAD_INDICES) |-> QUAD_INDICES[i] + first_vertex_index]

\* A cursor that moves by the glyph's width.
NextCursorByWidth(next, info) == Point(next.x + info.width, next.y)

\* let next_x = next.x() + info.advance; next.set_x(next_x);
NextCursor(next, info) == Point(next.x + info.advance, next.y)

\* The four vertices of one glyph of draw_text.
GlyphVertices(next, info) ==
    LET position_rect ==
            RectNew(Point(next.x - info.origin_x, next.y - info.origin_y),
                    Point(info.width, info.height))
        tex_coord_rect ==
            RectNew(Point(info.x, info.y), Point(info.width, info.height))
    IN << DebugTextureVertex(RectOrigin(position_rect),     RectOrigin(tex_coord_rect)),
          DebugTextureVertex(RectUpperRight(position_rect), RectUpperRight(tex_coord_rect)),
          DebugTextureVertex(RectLowerRight(position_rect), RectLowerRight(tex_coord_rect)),
          DebugTextureVertex(RectLowerLeft(position_rect),  RectLowerLeft(tex_coord_rect)) >>

\* The loop of draw_text; st holds its locals and chars, what is left of
\* the iterator string.chars().
RECURSIVE DrawTextLoop(_)
DrawTextLoop(st) ==
    IF st.chars = << >> THEN st
    ELSE LET character == Resolve(font, Head(st.chars))
             info == font[character]
             first_vertex_index == Len(st.vertex_data)
         IN DrawTextLoop(
                [chars       |-> Tail(st.chars),
                 vertex_data |-> st.vertex_data \o GlyphVertices(st.next, info),
                 index_data  |-> st.index_data \o QuadIndicesFrom(first_vertex_index),
                 next        |-> NextCursor(st.next, info)])

\* DebugUI::draw_texture_with_vertex_data: two uploads and one indexed draw.
draw_texture_with_vertex_data(vertex_data, index_data, texture, color) ==
    << [program     |-> "debug_texture",
        vertex_data |-> vertex_data,
        index_data  |-> index_data,
        framebuffer_size_uniform |-> framebuffer_size,
        texture     |-> texture,
        color       |-> color,
        mode        |-> "TRIANGLES",
        indexed     |-> TRUE,
        count       |-> Len(index_data)] >>

\* DebugUI::draw_text: the draw call it issues and the loop's final cursor.
draw_text(string, origin, invert) ==
    LET st == DrawTextLoop([chars |-> string, next |-> origin,
                            vertex_data |-> << >>, index_data |-> << >>])
        color == IF invert THEN INVERTED_TEXT_COLOR ELSE TEXT_COLOR
    IN [calls |-> draw_texture_with_vertex_data(st.vertex_data, st.index_data,
                                                "debug-font", color),
        next  |-> st.next]

\* DebugUI::draw_texture; texture is [name, size], its size a Size2D<u32>.
draw_texture(origin, texture, color) ==
    LET size == Point(AsI32(texture.size.width), AsI32(texture.size.height))
        position_rect == RectNew(origin, size)
        tex_coord_rect == RectNew(Point(0, 0), size)
    IN draw_texture_with_vertex_data(
         << DebugTextureVertex(RectOrigin(position_rect),     RectOrigin(tex_coord_rect)),
            DebugTextureVertex(RectUpperRight(position_rect), RectUpperRight(tex_coord_rect)),
            DebugTextureVertex(RectLowerRight(position_rect), RectLowerRight(tex_coord_rect)),
            DebugTextureVertex(RectLowerLeft(position_rect),  RectLowerLeft(tex_coord_rect)) >>,
         QUAD_INDICES, texture.name, color)

\* A measuring step that adds the glyph's width.
MeasureStepByWidth(next, info) == next + info.width

\* next += info.advance;
MeasureStep(next, info) == next + info.advance

RECURSIVE MeasureLoop(_, _)
MeasureLoop(string, next) ==
    IF string = << >> THEN next
    ELSE LET character == Resolve(font, Head(string))
             info == font[character]
         IN MeasureLoop(Tail(string), MeasureStep(next, info))

\* DebugUI::measure_text
measure_text(string) == MeasureLoop(string, 0)

----------------------------------------------------------------------------
(* The performance window.                                                 *)

DigitChar(d) == <<"0", "1", "2", "3", "4", "5", "6", "7", "8", "9">>[d + 1]

RECURSIVE Digits(_)
Digits(n) == IF n < 10 THEN <<DigitChar(n)>>
             ELSE Append(Digits(n \div 10), DigitChar(n % 10))

\* format!("{:.3}", v) of a non-negative f64: the decimal expansion of v cut
\* to three places, rounded to nearest, an exact half to the even digit.
Fixed3(v) ==
    LET scaled == v.num * 1000
        q == scaled \div v.den
        r == scaled % v.den
        n == IF 2 * r > v.den \/ (2 * r = v.den /\ q % 2 = 1) THEN q + 1 ELSE q
        frac == n % 1000
    IN Digits(n \div 1000)
         \o <<".", DigitChar(frac \div 100), DigitChar((frac \div 10) % 10),
              DigitChar(frac % 10)>>

\* format!("CPU: {:.3} ms", ..) / format!("GPU: {:.3} ms", ..)
FormatMs(prefix, v) == prefix \o Fixed3(v) \o <<" ", "m", "s">>

\* The window_rect of DebugUI::draw.
WindowRect ==
    LET bottom == AsI32(framebuffer_size.height) - PADDING
    IN RectNew(Point(AsI32(framebuffer_size.width) - PADDING - PERF_WINDOW_WIDTH,
                     bottom - PERF_WINDOW_HEIGHT),
               Point(PERF_WINDOW_WIDTH, PERF_WINDOW_HEIGHT))

\* The text and origin of the two lines of DebugUI::draw.
CpuLine == FormatMs(<<"C", "P", "U", ":", " ">>, mean_ms(cpu_samples))

GpuLine == FormatMs(<<"G", "P", "U", ":", " ">>, mean_ms(gpu_samples))

CpuOrigin == Point(RectMinX(WindowRect) + PADDING,
                   RectMinY(WindowRect) + PADDING + FONT_ASCENT)

GpuOrigin == Point(RectMinX(WindowRect) + PADDING,
                   RectMinY(WindowRect) + PADDING + FONT_ASCENT + LINE_HEIGHT)

\* DebugUI::draw: the three draw calls it issues, in order.
draw ==
    draw_solid_rect(WindowRect, WINDOW_COLOR)
      \o draw_text(CpuLine, CpuOrigin, FALSE).calls
      \o draw_text(GpuLine, GpuOrigin, FALSE).calls

----------------------------------------------------------------------------
(* Sample state.                                                           *)

\* An add_sample that pushes the tile time when there is no rendering time.
add_sample_always_gpu(tile_time, rendering_time) ==
    [cpu_samples |-> Push(cpu_samples, tile_time),
     gpu_samples |-> IF rendering_time # << >>
                     THEN Push(gpu_samples, rendering_time[1])
                     ELSE Push(gpu_samples, tile_time)]

\* DebugUI::add_sample: the two buffers after the call.
add_sample(tile_time, rendering_time) ==
    [cpu_samples |-> Push(cpu_samples, tile_time),
     gpu_samples |-> IF rendering_time # << >>
                     THEN Push(gpu_samples, rendering_time[1])
                     ELSE gpu_samples]

----------------------------------------------------------------------------
(* Inputs.                                                                 *)

Duration(secs, nanos) == [secs |-> secs, nanos |-> nanos]

\* 1000 ms, 3000 ms and 1500 ms.
Durations == {Duration(1, 0), Duration(3, 0), Duration(1, 500000000)}

\* Option<Duration> over a set of durations.
Optional(S) == {<< >>} \cup {<<d>> : d \in S}

\* The inputs of the add_sample calls after the first MaxFree of SpecSamples:
\* the tile times cycle through the durations, every twenty-first call has no
\* rendering time.
FillerCycle == <<Duration(1, 0), Duration(3, 0), Duration(1, 500000000)>>

FillerCpu(i) == FillerCycle[((i - 1) % 3) + 1]

FillerGpu(i) == IF i % 21 = 0 THEN << >> ELSE <<FillerCycle[(i % 3) + 1]>>

\* The tile times of add_sample in Spec.
FrameDurations == {Duration(1, 0), Duration(3, 0)}

Glyph(x, y, width, height, origin_x, origin_y, advance) ==
    [x |-> x, y |-> y, width |-> width, height |-> height,
     origin_x |-> origin_x, origin_y |-> origin_y, advance |-> advance]

\* A font with 'A' and '?' only.
ScenarioFont ==
    ("A" :> Glyph(0, 0, 10, 20, 0, 20, 12)) @@ ("?" :> Glyph(10, 0, 9, 21, -1, 19, 11))

OverlayChars ==
    <<"?", "C", "P", "U", "G", ":", " ", ".", "m", "s",
      "0", "1", "2", "3", "4", "5", "6", "7", "8", "9">>

\* A font with the characters of the performance window and no 'A'.
OverlayFont ==
    [c \in {OverlayChars[i] : i \in 1..Len(OverlayChars)} |->
        LET i == CHOOSE j \in 1..Len(OverlayChars) : OverlayChars[j] = c
        IN Glyph(18 * ((i - 1) % 10), 24 * ((i - 1) \div 10),
                 12 + (i % 5), 22 + (i % 3), (i % 3) - 1, 20 + (i % 2), 13 + (i % 4))]

Fonts == {ScenarioFont, OverlayFont}

Alphabet == {"A", "?", "1", "€"}

\* Every string over Alphabet of at most n characters.
RECURSIVE Strings(_)
Strings(n) ==
    IF n = 0 THEN {<< >>}
    ELSE LET shorter == Strings(n - 1)
         IN shorter \cup {Append(s, c) : s \in shorter, c \in Alphabet}

\* The strings drawn in Spec.
FrameStrings == {<<"A">>, <<"1", "€", "A">>}

Origins == {Point(0, 0), Point(24, 40)}

Rects == {RectNew(Point(0, 0), Point(1, 1)),
          RectNew(Point(10, 20), Point(300, 98)),
          RectNew(Point(-5, 7), Point(48, 48))}

Colors == {TEXT_COLOR, WINDOW_COLOR}

Size(width, height) == [width |-> width, height |-> height]

Textures == {[name |-> "debug-font", size |-> Size(256, 128)],
             [name |-> "icon", size |-> Size(48, 48)]}

FramebufferSizes == {Size(800, 600), Size(0, 0), Size(40000, 600)}

----------------------------------------------------------------------------
(* Operations.                                                             *)

\* DebugUI::new(framebuffer_size), the font being what DebugFont::load read.
New(size, characters) ==
    /\ framebuffer_size = size
    /\ font = characters
    /\ cpu_samples = SampleBufferNew
    /\ gpu_samples = SampleBufferNew
    /\ solid_index_buffer = QUAD_INDICES
    /\ gl_calls = << >>
    /\ call = [op |-> "new"]
    /\ frame = << >>
    /\ pushed_cpu = << >>
    /\ pushed_gpu = << >>
    /\ window_size = size
    /\ loaded_font = characters

SetFramebufferSize(size) ==
    /\ framebuffer_size' = size
    /\ window_size' = size
    /\ call' = [op |-> "set_framebuffer_size", window_size |-> size]
    /\ gl_calls' = << >>
    /\ frame' = << >>
    /\ UNCHANGED <<font, cpu_samples, gpu_samples, pushed_cpu, pushed_gpu, loaded_font,
                   input, solid_index_buffer>>

AddSample(tile_time, rendering_time) ==
    /\ cpu_samples' = add_sample(tile_time, rendering_time).cpu_samples
    /\ gpu_samples' = add_sample(tile_time, rendering_time).gpu_samples
    /\ pushed_cpu' = Append(pushed_cpu, tile_time)
    /\ pushed_gpu' = pushed_gpu \o rendering_time
    /\ call' = [op |-> "add_sample", tile_time |-> tile_time,
                rendering_time |-> rendering_time]
    /\ gl_calls' = << >>
    /\ frame' = << >>
    /\ UNCHANGED <<framebuffer_size, font, window_size, loaded_font, input,
                   solid_index_buffer>>

\* A draw that empties the CPU samples it has shown.
DrawDraining ==
    /\ gl_calls' = draw
    /\ call' = [op |-> "draw"]
    /\ frame' = IF frame = << >> THEN <<draw, 1>> ELSE <<frame[1], Min(frame[2] + 1, 2)>>
    /\ cpu_samples' = << >>
    /\ UNCHANGED <<framebuffer_size, font, gpu_samples,
                   pushed_cpu, pushed_gpu, window_size, loaded_font, input,
                   solid_index_buffer>>

Draw ==
    /\ gl_calls' = draw
    /\ call' = [op |-> "draw"]
    /\ frame' = IF frame = << >> THEN <<draw, 1>> ELSE <<frame[1], Min(frame[2] + 1, 2)>>
    /\ UNCHANGED <<framebuffer_size, font, cpu_samples, gpu_samples,
                   pushed_cpu, pushed_gpu, window_size, loaded_font, input,
                   solid_index_buffer>>

DrawSolidRect(rect, color) ==
    /\ gl_calls' = draw_solid_rect(rect, color)
    /\ call' = [op |-> "draw_solid_rect", rect |-> rect, color |-> color]
    /\ UNCHANGED <<framebuffer_size, font, cpu_samples, gpu_samples, frame,
                   pushed_cpu, pushed_gpu, window_size, loaded_font, input,
                   solid_index_buffer>>

DrawRectOutline(rect, color) ==
    /\ gl_calls' = draw_rect_outline(rect, color)
    /\ call' = [op |-> "draw_rect_outline", rect |-> rect, color |-> color]
    /\ UNCHANGED <<framebuffer_size, font, cpu_samples, gpu_samples, frame,
                   pushed_cpu, pushed_gpu, window_size, loaded_font, input,
                   solid_index_buffer>>

DrawText(string, origin, invert) ==
    /\ gl_calls' = draw_text(string, origin, invert).calls
    /\ call' = [op |-> "draw_text", string |-> string, origin |-> origin,
                invert |-> invert, next |-> draw_text(string, origin, invert).next]
    /\ UNCHANGED <<framebuffer_size, font, cpu_samples, gpu_samples, frame,
                   pushed_cpu, pushed_gpu, window_size, loaded_font, input,
                   solid_index_buffer>>

DrawTexture(origin, texture, color) ==
    /\ gl_calls' = draw_texture(origin, texture, color)
    /\ call' = [op |-> "draw_texture", origin |-> origin, texture |-> texture,
                color |-> color]
    /\ UNCHANGED <<framebuffer_size, font, cpu_samples, gpu_samples, frame,
                   pushed_cpu, pushed_gpu, window_size, loaded_font, input,
                   solid_index_buffer>>

MeasureText(string) ==
    /\ call' = [op |-> "measure_text", string |-> string,
                result |-> measure_text(string)]
    /\ gl_calls' = << >>
    /\ UNCHANGED <<framebuffer_size, font, cpu_samples, gpu_samples, frame,
                   pushed_cpu, pushed_gpu, window_size, loaded_font, input,
                   solid_index_buffer>>

\* A call of SampleBuffer::mean_ms on one of the two buffers.
MeanMs(buffer) ==
    /\ call' = [op |-> "mean_ms", buffer |-> buffer,
                result |-> mean_ms(IF buffer = "cpu" THEN cpu_samples ELSE gpu_samples)]
    /\ gl_calls' = << >>
    /\ UNCHANGED <<framebuffer_size, font, cpu_samples, gpu_samples, frame,
                   pushed_cpu, pushed_gpu, window_size, loaded_font, input,
                   solid_index_buffer>>

----------------------------------------------------------------------------
(* Spec: the overlay in use, every operation of DebugUI interleaved.       *)

Init ==
    /\ \E size \in FramebufferSizes, characters \in Fonts : New(size, characters)
    /\ input = << >>

FrameSample ==
    /\ Len(pushed_cpu) < MaxFrames
    /\ \E tile_time \in FrameDurations, rendering_time \in Optional({Duration(3, 0)}) :
          AddSample(tile_time, rendering_time)

Resize == \E size \in FramebufferSizes : SetFramebufferSize(size)

FrameText == \E string \in FrameStrings, invert \in BOOLEAN :
                DrawText(string, Point(24, 40), invert)

FrameMeasure == \E string \in FrameStrings : MeasureText(string)

SolidRect == \E rect \in Rects : DrawSolidRect(rect, WINDOW_COLOR)

RectOutline == \E rect \in Rects : DrawRectOutline(rect, TEXT_COLOR)

Texture == \E texture \in Textures : DrawTexture(Point(0, 0), texture, TEXT_COLOR)

Next ==
    \/ FrameSample
    \/ Resize
    \/ Draw
    \/ FrameText
    \/ FrameMeasure
    \/ SolidRect
    \/ RectOutline
    \/ Texture

Spec == Init /\ [][Next]_vars

----------------------------------------------------------------------------
(* SpecSamples: a long run of add_sample, past the capacity of both        *)
(* buffers, with mean_ms read at any point.                                *)

InitSamples == New(Size(800, 600), OverlayFont) /\ input = << >>

FreeSample ==
    /\ Len(pushed_cpu) < MaxFree
    /\ \E tile_time \in Durations, rendering_time \in Optional(Durations) :
          AddSample(tile_time, rendering_time)

FillerSample ==
    /\ Len(pushed_cpu) >= MaxFree
    /\ Len(pushed_cpu) < MaxCalls
    /\ AddSample(FillerCpu(Len(pushed_cpu) + 1), FillerGpu(Len(pushed_cpu) + 1))

ReadMean == \E buffer \in {"cpu", "gpu"} : MeanMs(buffer)

NextSamples ==
    \/ FreeSample
    \/ FillerSample
    \/ ReadMean

SpecSamples == InitSamples /\ [][NextSamples]_vars

----------------------------------------------------------------------------------------------------------------------------------------
(* SpecDraw: the drawing primitives as functions of their arguments.  The  *)
(* initial state draws the font and the arguments of the call the host is  *)
(* about to make: a string of at most MaxLen characters with an origin, a  *)
(* rectangle, or a texture.                                                *)

TextInputs ==
    {[kind |-> "text", string |-> string, origin |-> origin, invert |-> invert] :
        string \in Strings(MaxLen), origin \in Origins, invert \in BOOLEAN}

RectInputs == {[kind |-> "rect", rect |-> rect, color |-> color] :
                  rect \in Rects, color \in Colors}

TextureInputs == {[kind |-> "texture", origin |-> origin, texture |-> texture] :
                     origin \in Origins, texture \in Textures}

InitDraw ==
    /\ \E characters \in Fonts : New(Size(800, 600), characters)
    /\ input \in TextInputs \cup RectInputs \cup TextureInputs

TextOfInput ==
    /\ input.kind = "text"
    /\ DrawText(input.string, input.origin, input.invert)

MeasureOfInput ==
    /\ input.kind = "text"
    /\ MeasureText(input.string)

SolidRectOfInput ==
    /\ input.kind = "rect"
    /\ DrawSolidRect(input.rect, input.color)

OutlineOfInput ==
    /\ input.kind = "rect"
    /\ DrawRectOutline(input.rect, input.color)

TextureOfInput ==
    /\ input.kind = "texture"
    /\ DrawTexture(input.origin, input.texture, TEXT_COLOR)

NextDraw ==
    \/ TextOfInput
    \/ MeasureOfInput
    \/ SolidRectOfInput
    \/ OutlineOfInput
    \/ TextureOfInput

SpecDraw == InitDraw /\ [][NextDraw]_vars

----------------------------------------------------------------------------
(* Properties.                                                             *)

\* The last n elements of s (all of s when it has fewer).
LastN(s, n) == SubSeq(s, Len(s) - Min(Len(s), n) + 1, Len(s))

\* A duration of whole milliseconds, in milliseconds.
WholeMs(time) == time.secs * 1000 + time.nanos \div 1000000

RECURSIVE TotalMs(_, _)
TotalMs(s, k) == IF k = 0 THEN 0 ELSE TotalMs(s, k - 1) + WholeMs(s[k])

\* The glyph a character stands for: its own, or that of '?'.
GlyphOf(c) == IF c \in DOMAIN font THEN font[c] ELSE font["?"]

\* The advances of the first k characters of s, added up.
RECURSIVE SumAdvances(_, _)
SumAdvances(s, k) == IF k = 0 THEN 0 ELSE SumAdvances(s, k - 1) + GlyphOf(s[k]).advance

\* s with every character the font lacks replaced by '?'.
Substituted(s) == [k \in 1..Len(s) |-> IF s[k] \in DOMAIN font THEN s[k] ELSE "?"]

\* The screen rectangle of the k-th glyph (from 1) of s laid out at origin.
GlyphRect(s, origin, k) ==
    LET info == GlyphOf(s[k])
    IN RectNew(Point(origin.x + SumAdvances(s, k - 1) - info.origin_x,
                     origin.y - info.origin_y),
               Point(info.width, info.height))

Corners(rect) ==
    << rect.origin,
       Point(rect.origin.x + rect.size.x, rect.origin.y),
       Point(rect.origin.x + rect.size.x, rect.origin.y + rect.size.y),
       Point(rect.origin.x, rect.origin.y + rect.size.y) >>

PositionOf(vertex) == Point(vertex.position_x, vertex.position_y)

TexCoordOf(vertex) == Point(vertex.tex_coord_x, vertex.tex_coord_y)

\* C1: after n add_sample calls each buffer holds exactly the last
\* min(n, 60) samples pushed to it, oldest first, and never more than
\* SAMPLE_BUFFER_SIZE of them.
C1_LastSamplesKept ==
    /\ cpu_samples = LastN(pushed_cpu, 60)
    /\ gpu_samples = LastN(pushed_gpu, 60)
    /\ Len(cpu_samples) = Min(Len(pushed_cpu), 60)
    /\ Len(cpu_samples) <= SAMPLE_BUFFER_SIZE
    /\ Len(gpu_samples) <= SAMPLE_BUFFER_SIZE

\* Both buffers have evicted: more than 60 samples were pushed to each.
C1_Witness ==
    /\ call.op = "add_sample"
    /\ Len(pushed_cpu) > SAMPLE_BUFFER_SIZE
    /\ Len(pushed_gpu) > SAMPLE_BUFFER_SIZE
    /\ Head(cpu_samples) # Head(pushed_cpu)

\* C2: mean_ms is 0.0 on an empty buffer and otherwise the total of the
\* last (at most 60) samples pushed, in milliseconds, over their number;
\* [1000ms] gives 1000.0 and [1000ms, 3000ms] gives 2000.0.
C2_MeanOfWindow ==
    call.op = "mean_ms" =>
        LET pushed == IF call.buffer = "cpu" THEN pushed_cpu ELSE pushed_gpu
            window == LastN(pushed, 60)
        IN /\ window = << >> => call.result = [num |-> 0, den |-> 1]
           /\ window # << >> =>
                /\ call.result.den > 0
                /\ call.result.num * Len(window)
                      = TotalMs(window, Len(window)) * call.result.den
           /\ window = <<Duration(1, 0)>> => call.result = [num |-> 1000, den |-> 1]
           /\ window = <<Duration(1, 0), Duration(3, 0)>>
                 => call.result = [num |-> 2000, den |-> 1]

\* A mean read after samples were evicted, and not a whole number.
C2_Witness ==
    /\ call.op = "mean_ms"
    /\ call.buffer = "cpu"
    /\ Len(pushed_cpu) > SAMPLE_BUFFER_SIZE
    /\ call.result.den > 1

\* C3: measure_text(s) is the sum of the advances of the glyphs the
\* characters of s stand for ('?' for a character the font lacks), 0 for "".
C3_MeasureIsSumOfAdvances ==
    call.op = "measure_text" =>
        /\ call.result = SumAdvances(call.string, Len(call.string))
        /\ call.string = << >> => call.result = 0

\* A measured string with a character the font has and one it lacks.
C3_Witness ==
    /\ call.op = "measure_text"
    /\ \E k \in 1..Len(call.string) : call.string[k] \notin DOMAIN font
    /\ \E k \in 1..Len(call.string) : call.string[k] \in DOMAIN font \ {"?"}
    /\ call.result > 0

\* C4: draw_text of n characters builds 4n vertices and 6n indices, the
\* indices of glyph k being 4k+0, 4k+1, 4k+3, 4k+1, 4k+2, 4k+3, all within
\* 0..4n-1; none of either for the empty string.
C4_QuadCounts ==
    call.op = "draw_text" =>
        LET n == Len(call.string)
            cmd == gl_calls[1]
        IN /\ Len(gl_calls) = 1
           /\ Len(cmd.vertex_data) = 4 * n
           /\ Len(cmd.index_data) = 6 * n
           /\ cmd.count = 6 * n
           /\ \A k \in 0..(n - 1) :
                 SubSeq(cmd.index_data, 6 * k + 1, 6 * k + 6)
                    = <<4*k, 4*k + 1, 4*k + 3, 4*k + 1, 4*k + 2, 4*k + 3>>
           /\ \A i \in 1..Len(cmd.index_data) :
                 /\ cmd.index_data[i] \in 0..(4 * n - 1)
                 /\ cmd.index_data[i] \div 4 = (i - 1) \div 6

\* A text of several glyphs was drawn.
C4_Witness ==
    /\ call.op = "draw_text"
    /\ Len(call.string) >= 2
    /\ Len(gl_calls[1].index_data) >= 12

\* C5: draw_text and measure_text treat a character the font lacks as '?':
\* the string with such characters replaced by '?' gives the same draw call
\* and the same width; a character the font has keeps its own glyph.
C5_FallbackGlyph ==
    /\ call.op = "draw_text" =>
          /\ gl_calls = draw_text(Substituted(call.string), call.origin, call.invert).calls
          /\ \A k \in 1..Len(call.string) :
                LET c == call.string[k]
                    v == gl_calls[1].vertex_data[4 * (k - 1) + 1]
                IN /\ c \in DOMAIN font => TexCoordOf(v) = Point(font[c].x, font[c].y)
                   /\ c \notin DOMAIN font => TexCoordOf(v) = Point(font["?"].x, font["?"].y)
    /\ call.op = "measure_text" =>
          call.result = measure_text(Substituted(call.string))

\* A drawn string with a character the font lacks and another it has.
C5_Witness ==
    /\ call.op = "draw_text"
    /\ \E k \in 1..Len(call.string) : call.string[k] \notin DOMAIN font
    /\ \E k \in 1..Len(call.string) : call.string[k] \in DOMAIN font \ {"?"}

\* C6: glyph k of draw_text sits at (cursor.x - originX, cursor.y - originY)
\* with size (width, height), textured from (x, y) with the same size, the
\* cursor being the origin moved right by the advances of the glyphs before
\* it; the final cursor is the origin moved by measure_text of the string.
C6_GlyphPlacement ==
    call.op = "draw_text" =>
        LET s == call.string
            v == gl_calls[1].vertex_data
        IN /\ \A k \in 1..Len(s) :
                LET info == GlyphOf(s[k])
                    screen == Corners(GlyphRect(s, call.origin, k))
                    atlas == Corners(RectNew(Point(info.x, info.y),
                                             Point(info.width, info.height)))
                IN \A j \in 1..4 :
                      /\ PositionOf(v[4 * (k - 1) + j]) = screen[j]
                      /\ TexCoordOf(v[4 * (k - 1) + j]) = atlas[j]
           /\ call.next.y = call.origin.y
           /\ call.next.x - call.origin.x = measure_text(s)
           /\ call.next.x = call.origin.x + SumAdvances(s, Len(s))
           /\ (font = ScenarioFont /\ s = <<"A">> /\ call.origin = Point(0, 0)) =>
                 /\ PositionOf(v[1]) = Point(0, -20)
                 /\ PositionOf(v[3]) = Point(10, 0)
                 /\ call.next.x = 12

\* The scenario's 'A' drawn at (0, 0), followed by further glyphs.
C6_Witness ==
    /\ call.op = "draw_text"
    /\ font = ScenarioFont
    /\ call.origin = Point(0, 0)
    /\ Len(call.string) >= 2
    /\ call.string[1] = "A"
    /\ PositionOf(gl_calls[1].vertex_data[1]) = Point(0, -20)

\* C7: draw_solid_rect and draw_rect_outline upload the corners origin,
\* upper-right, lower-right, lower-left; the filled one draws triangles with
\* the indices 0,1,3,1,2,3, the outline a line loop of 4 vertices, unindexed.
C7_RectVertices ==
    call.op \in {"draw_solid_rect", "draw_rect_outline"} =>
        LET cmd == gl_calls[1]
        IN /\ Len(gl_calls) = 1
           /\ Len(cmd.vertex_data) = 4
           /\ \A j \in 1..4 : PositionOf(cmd.vertex_data[j]) = Corners(call.rect)[j]
           /\ call.op = "draw_solid_rect" =>
                 /\ cmd.mode = "TRIANGLES"
                 /\ cmd.indexed
                 /\ cmd.index_data = <<0, 1, 3, 1, 2, 3>>
                 /\ cmd.count = 6
           /\ call.op = "draw_rect_outline" =>
                 /\ cmd.mode = "LINE_LOOP"
                 /\ ~cmd.indexed
                 /\ cmd.index_data = << >>
                 /\ cmd.count = 4

\* An outline of a rectangle with four distinct corners was drawn.
C7_Witness ==
    /\ call.op = "draw_rect_outline"
    /\ call.rect.size.x > 1
    /\ call.rect.size.y > 1
    /\ gl_calls[1].mode = "LINE_LOOP"

\* C8: add_sample pushes the tile time, pushes the rendering time exactly
\* when there is one, and changes neither the framebuffer size nor the
\* font; the buffers hold min(60, calls) and min(60, calls with a rendering
\* time) samples, the GPU buffer never more than the CPU buffer.
C8_AddSample ==
    /\ Len(cpu_samples) = Min(SAMPLE_BUFFER_SIZE, Len(pushed_cpu))
    /\ Len(gpu_samples) = Min(SAMPLE_BUFFER_SIZE, Len(pushed_gpu))
    /\ Len(gpu_samples) <= Len(cpu_samples)
    /\ framebuffer_size = window_size
    /\ font = loaded_font
    /\ call.op = "add_sample" =>
          /\ cpu_samples[Len(cpu_samples)] = call.tile_time
          /\ call.rendering_time # << >> =>
                gpu_samples[Len(gpu_samples)] = call.rendering_time[1]
          /\ call.rendering_time = << >> =>
                gpu_samples = LastN(pushed_gpu, SAMPLE_BUFFER_SIZE)

\* An add_sample without a rendering time, after the CPU buffer filled up.
C8_Witness ==
    /\ call.op = "add_sample"
    /\ call.rendering_time = << >>
    /\ Len(pushed_cpu) > SAMPLE_BUFFER_SIZE
    /\ Len(gpu_samples) < Len(cpu_samples)

\* C9: the drawing operations change neither the samples, the framebuffer
\* size nor the font (these stay what add_sample and set_framebuffer_size
\* made them), and a draw issues the window rectangle and two text lines,
\* the same as the first draw since the state last changed.
C9_DrawIsIdempotent ==
    /\ cpu_samples = LastN(pushed_cpu, SAMPLE_BUFFER_SIZE)
    /\ gpu_samples = LastN(pushed_gpu, SAMPLE_BUFFER_SIZE)
    /\ framebuffer_size = window_size
    /\ font = loaded_font
    /\ call.op = "draw" =>
          /\ Len(gl_calls) = 3
          /\ gl_calls[1].program = "debug_solid"
          /\ Len(gl_calls[2].vertex_data) = 4 * Len(CpuLine)
          /\ Len(gl_calls[3].vertex_data) = 4 * Len(GpuLine)
          /\ frame # << >>
          /\ gl_calls = frame[1]

\* A draw repeated with samples in both buffers.
C9_Witness ==
    /\ call.op = "draw"
    /\ frame # << >>
    /\ frame[2] = 2
    /\ cpu_samples # << >>
    /\ gpu_samples # << >>

\* The points draw() gives to DebugSolidVertex::new and
\* DebugTextureVertex::new as positions.
DrawPositions ==
    LET line(s, origin) ==
            UNION {{Corners(GlyphRect(s, origin, k))[j] : j \in 1..4} : k \in 1..Len(s)}
    IN {Corners(WindowRect)[j] : j \in 1..4}
         \cup line(CpuLine, CpuOrigin) \cup line(GpuLine, GpuOrigin)

\* C10: every position draw() builds a vertex from lies in the signed
\* 16-bit range, so the vertex holds it unchanged.
C10_VerticesHoldCoordinates ==
    call.op = "draw" =>
        /\ \A p \in DrawPositions :
              /\ p.x \in -32768..32767
              /\ p.y \in -32768..32767
        /\ \A j \in 1..4 :
              PositionOf(gl_calls[1].vertex_data[j]) = Corners(WindowRect)[j]

====
